---------------------------- MODULE Spec2Model ----------------------------
(***************************************************************************)
(* Model of the AWS ECS node (nodes/Aws/ECS/AwsEcs.node.ts): the three     *)
(* entry points execute, loadOptions.getClusters and loadOptions.          *)
(* getServices, each run as a sequence of steps separated by the awaits on *)
(* the shared HTTP request helper awsApiRequest.  The helper is outside    *)
(* the file: it is modelled as an environment that answers every request   *)
(* with a value or with an error.                                          *)
(*                                                                         *)
(* JavaScript strings that the code takes apart (the serviceNames          *)
(* parameter) are sequences of one-character strings; the other strings    *)
(* are TLA+ strings.  A missing / undefined property is the value          *)
(* Undefined.                                                              *)
(***************************************************************************)
EXTENDS Integers, Sequences, FiniteSets, TLC

VARIABLES
    op,          \* the entry point that runs: "none", "execute", "getClusters", "getServices"
    pc,          \* its position: "idle", the await it is suspended at, or "done"
    items,       \* the parameter values getNodeParameter resolves, one record per item index
    requests,    \* the requests handed to awsApiRequest so far, in order
    responses,   \* the values awsApiRequest resolved with so far, in order
    rejection,   \* the error awsApiRequest rejected with, or NoError
    body,        \* getServices: the request body object (mutated inside the loop)
    returnData,  \* the accumulator of getServices and of execute
    result       \* what the entry point handed to its caller

vars == <<op, pc, items, requests, responses, rejection, body, returnData, result>>

---------------------------------------------------------------------------
(* Bounds of the model.                                                    *)

\* longest serviceNames string enumerated character by character
MaxLen == 4
\* longest comma-separated list of one-letter names enumerated in addition
MaxNames == 11
\* most input items of one execute run
MaxItems == 2
\* most ListServices requests of one getServices run
MaxPages == 3
\* largest desiredCount parameter
MaxCount == 2

---------------------------------------------------------------------------
(* Values.                                                                 *)

Undefined == "<undefined>"
NoError == "<none>"
TypeError == "TypeError"
HelperErrors == {"Http403", "Http500"}

\* JavaScript truthiness of a string-or-undefined value.
Truthy(v) == v # Undefined /\ v # ""

Alphabet == {"a", "b", ",", " "}
IsWhiteSpace(c) == c = " "

RECURSIVE StringsOfLen(_)
StringsOfLen(n) ==
    IF n = 0 THEN {<<>>}
    ELSE {Append(s, c) : s \in StringsOfLen(n - 1), c \in Alphabet}

ShortStrings == UNION {StringsOfLen(n) : n \in 0..MaxLen}

\* "a", "a,a", "a,a,a", ...: n one-letter names
RECURSIVE NameList(_)
NameList(n) == IF n <= 1 THEN <<"a">> ELSE NameList(n - 1) \o <<",", "a">>

ServiceNamesInputs == ShortStrings \cup {NameList(n) : n \in 1..MaxNames}

ContentType == "application/x-amz-json-1.1"
TargetPrefix == "AmazonEC2ContainerServiceV20141113."

---------------------------------------------------------------------------
(* The parameters of the node.                                             *)

DefaultParams ==
    [operation |-> "forceNewDeployment", clusterName |-> "", serviceName |-> "",
     serviceNames |-> <<>>, desiredCount |-> -1]

DescribeParams ==
    {[DefaultParams EXCEPT !.operation = "describeServices", !.clusterName = "c1",
                           !.serviceNames = s] : s \in ServiceNamesInputs}

ForceParams ==
    {[DefaultParams EXCEPT !.clusterName = c, !.serviceName = "svc1",
                           !.desiredCount = d] :
        c \in {"c1", "c2"}, d \in -2..MaxCount}

OtherParams == {[DefaultParams EXCEPT !.operation = "listTasks", !.clusterName = "c1"]}

FirstItemParams == DescribeParams \cup ForceParams \cup OtherParams

\* what the parameters resolve to for the item indexes after 0
LaterItemParams ==
    {[DefaultParams EXCEPT !.clusterName = "c9", !.serviceName = "svc9",
                           !.desiredCount = 1],
     [DefaultParams EXCEPT !.operation = "describeServices", !.clusterName = "c9",
                           !.serviceNames = <<"b">>]}

RECURSIVE LaterItems(_)
LaterItems(n) ==
    IF n = 0 THEN {<<>>}
    ELSE {Append(s, p) : s \in LaterItems(n - 1), p \in LaterItemParams}

ExecuteInputs ==
    {<<p>> \o rest : p \in FirstItemParams,
                     rest \in UNION {LaterItems(n) : n \in 0..(MaxItems - 1)}}

LoadOptionsInputs == {<<[DefaultParams EXCEPT !.clusterName = c]>> : c \in {"", "c1"}}

\* this.getNodeParameter(name, itemIndex)
GetNodeParameter(its, name, itemIndex) == its[itemIndex + 1][name]

---------------------------------------------------------------------------
(* What the request helper may resolve with.                               *)

ExecuteResponses ==
    {[null |-> TRUE, data |-> 0], [null |-> FALSE, data |-> 1], [null |-> FALSE, data |-> 2]}

ArnLists == {<<>>, <<"arn1">>, <<"arn2", "arn1">>}
NextTokens == {Undefined, "", "t1", "t2"}

NullListResponse == [null |-> TRUE, hasArns |-> FALSE, arns |-> <<>>, nextToken |-> Undefined]

ListResponses ==
    {NullListResponse}
    \cup {[null |-> FALSE, hasArns |-> FALSE, arns |-> <<>>, nextToken |-> t] : t \in NextTokens}
    \cup {[null |-> FALSE, hasArns |-> TRUE, arns |-> a, nextToken |-> t] :
            a \in ArnLists, t \in NextTokens}

Request(target, b) ==
    [service |-> "ecs", method |-> "POST", path |-> "/", body |-> b,
     headers |-> [ContentType |-> ContentType, XAmzTarget |-> target]]

Pending == [kind |-> "pending", value |-> <<>>, error |-> NoError]
Returned(v) == [kind |-> "returned", value |-> v, error |-> NoError]
Thrown(e) == [kind |-> "thrown", value |-> <<>>, error |-> e]

Init ==
    /\ op = "none"
    /\ pc = "idle"
    /\ items = <<>>
    /\ requests = <<>>
    /\ responses = <<>>
    /\ rejection = NoError
    /\ body = <<>>
    /\ returnData = <<>>
    /\ result = Pending

---------------------------------------------------------------------------
(* execute                                                                 *)

\* String.prototype.split(sep): scan, cutting at every separator
RECURSIVE SplitFrom(_, _, _, _, _)
SplitFrom(s, sep, i, cur, acc) ==
    IF i > Len(s) THEN Append(acc, cur)
    ELSE IF s[i] = sep THEN SplitFrom(s, sep, i + 1, <<>>, Append(acc, cur))
    ELSE SplitFrom(s, sep, i + 1, Append(cur, s[i]), acc)

Split(s, sep) == SplitFrom(s, sep, 1, <<>>, <<>>)

RECURSIVE TrimStart(_)
TrimStart(s) == IF s # <<>> /\ IsWhiteSpace(Head(s)) THEN TrimStart(Tail(s)) ELSE s

RECURSIVE TrimEnd(_)
TrimEnd(s) ==
    IF s # <<>> /\ IsWhiteSpace(s[Len(s)]) THEN TrimEnd(SubSeq(s, 1, Len(s) - 1)) ELSE s

TrimStartOnly(s) == TrimStart(s)

\* String.prototype.trim()
Trim(s) == TrimEnd(TrimStart(s))

\* serviceNamesRaw.split(',').map((s) => s.trim()).filter((s) => s)
ParseServiceNames(raw) ==
    LET pieces == Split(raw, ",")
        trimmed == [i \in 1..Len(pieces) |-> Trim(pieces[i])]
    IN SelectSeq(trimmed, LAMBDA s : s # <<>>)

UpdateServiceTarget == TargetPrefix \o "UpdateService"

DescribeServicesTargetWrong == UpdateServiceTarget

DescribeServicesTarget == TargetPrefix \o "DescribeServices"

DescribeServicesBody(cluster, services) == [cluster |-> cluster, services |-> services]

\* the body of UpdateService; desiredCount is set only when it is > 0
UpdateServiceBody(cluster, service, desiredCount) ==
    LET b == [cluster |-> cluster, service |-> service, forceNewDeployment |-> TRUE]
    IN IF desiredCount > 0
       THEN [f \in DOMAIN b \cup {"desiredCount"} |->
                IF f = "desiredCount" THEN desiredCount ELSE b[f]]
       ELSE b

\* execute up to its first await: read the parameters of item 0, dispatch on
\* the operation, build the request and hand it to the helper
ExecuteStart(its) ==
    /\ pc = "idle"
    /\ op' = "execute"
    /\ items' = its
    /\ returnData' = <<>>
    /\ LET operation == GetNodeParameter(its, "operation", 0)
           cluster == GetNodeParameter(its, "clusterName", 0)
       IN IF operation = "describeServices"
          THEN LET serviceNamesRaw == GetNodeParameter(its, "serviceNames", 0)
                   services == ParseServiceNames(serviceNamesRaw)
               IN /\ requests' = Append(requests,
                        Request(DescribeServicesTarget, DescribeServicesBody(cluster, services)))
                  /\ pc' = "await224"
                  /\ result' = result
          ELSE IF operation = "forceNewDeployment"
          THEN LET service == GetNodeParameter(its, "serviceName", 0)
                   desiredCount == GetNodeParameter(its, "desiredCount", 0)
               IN /\ requests' = Append(requests,
                        Request(UpdateServiceTarget,
                                UpdateServiceBody(cluster, service, desiredCount)))
                  /\ pc' = "await248"
                  /\ result' = result
          ELSE /\ requests' = requests
               /\ pc' = "done"
               /\ result' = Returned(<<returnData'>>)
    /\ UNCHANGED <<responses, rejection, body>>

PushAlways(rd, responseData) ==
    Append(rd, [json |-> responseData, pairedItem |-> [item |-> 0]])

\* if (responseData) returnData.push({ json: responseData, pairedItem: { item: 0 } })
PushResponse(rd, responseData) ==
    IF ~responseData.null
    THEN Append(rd, [json |-> responseData, pairedItem |-> [item |-> 0]])
    ELSE rd

\* execute after its await: push the response if truthy, return [returnData]
ExecuteResolve(responseData) ==
    /\ op = "execute"
    /\ pc \in {"await224", "await248"}
    /\ responses' = Append(responses, responseData)
    /\ returnData' = PushResponse(returnData, responseData)
    /\ result' = Returned(<<returnData'>>)
    /\ pc' = "done"
    /\ UNCHANGED <<op, items, requests, rejection, body>>

---------------------------------------------------------------------------
(* loadOptions                                                             *)

\* arns.map((arn) => ({ name: arn, value: arn }))
Options(arns) == [i \in 1..Len(arns) |-> [name |-> arns[i], value |-> arns[i]]]

ListClustersTarget == TargetPrefix \o "ListClusters"
ListServicesTarget == TargetPrefix \o "ListServices"
MaxResults == 50

\* getClusters up to its await: one ListClusters request with the body {}
GetClustersStart(its) ==
    /\ pc = "idle"
    /\ op' = "getClusters"
    /\ items' = its
    /\ requests' = Append(requests, Request(ListClustersTarget, <<>>))
    /\ pc' = "await134"
    /\ UNCHANGED <<responses, rejection, body, returnData, result>>

\* getClusters after its await: responseData.clusterArns.map(...) is returned;
\* reading a property of null, or calling map on undefined, is a TypeError
GetClustersResolve(responseData) ==
    /\ op = "getClusters"
    /\ pc = "await134"
    /\ responses' = Append(responses, responseData)
    /\ result' = IF responseData.null \/ ~responseData.hasArns
                 THEN Thrown(TypeError)
                 ELSE Returned(Options(responseData.arns))
    /\ pc' = "done"
    /\ UNCHANGED <<op, items, requests, rejection, body, returnData>>

\* const body = { cluster: clusterName, maxResults: 50 }
ListServicesBody(clusterName) == [cluster |-> clusterName, maxResults |-> MaxResults]

KeepFirstNextToken(b, nextToken) ==
    IF "nextToken" \in DOMAIN b THEN b
    ELSE [f \in DOMAIN b \cup {"nextToken"} |-> IF f = "nextToken" THEN nextToken ELSE b[f]]

\* body.nextToken = nextToken
WithNextToken(b, nextToken) ==
    [f \in DOMAIN b \cup {"nextToken"} |-> IF f = "nextToken" THEN nextToken ELSE b[f]]

LoopContinuesLimited(nextToken) == Truthy(nextToken) /\ Len(requests) < 2

\* if (responseData.nextToken) ... / if (!nextToken) break
LoopContinues(nextToken) == Truthy(nextToken)

\* getServices up to its first await: no request at all for an empty clusterName
GetServicesStart(its) ==
    /\ pc = "idle"
    /\ op' = "getServices"
    /\ items' = its
    /\ returnData' = <<>>
    /\ LET clusterName == GetNodeParameter(its, "clusterName", 0)
       IN IF ~Truthy(clusterName)
          THEN /\ result' = Returned(<<>>)
               /\ pc' = "done"
               /\ UNCHANGED <<requests, body>>
          ELSE /\ body' = ListServicesBody(clusterName)
               /\ requests' = Append(requests, Request(ListServicesTarget, body'))
               /\ pc' = "await162"
               /\ result' = result
    /\ UNCHANGED <<responses, rejection>>

\* A result set has at most MaxPages pages: the response that makes the code
\* ask for a further page arrives only while fewer than MaxPages were asked for.
WithinPages(responseData) ==
    (~responseData.null /\ responseData.hasArns /\ LoopContinues(responseData.nextToken))
        => Len(requests) < MaxPages

\* getServices after its first await (lines 164-176 and, when there is a
\* nextToken, the first pass of the loop up to its await)
GetServicesFirstResolve(responseData) ==
    /\ op = "getServices"
    /\ pc = "await162"
    /\ WithinPages(responseData)
    /\ responses' = Append(responses, responseData)
    /\ IF responseData.null
       THEN /\ result' = Thrown(TypeError)
            /\ pc' = "done"
            /\ UNCHANGED <<returnData, body, requests>>
       ELSE IF ~responseData.hasArns
       THEN /\ result' = Returned(<<>>)
            /\ pc' = "done"
            /\ UNCHANGED <<returnData, body, requests>>
       ELSE /\ returnData' = returnData \o Options(responseData.arns)
            /\ IF LoopContinues(responseData.nextToken)
               THEN /\ body' = WithNextToken(body, responseData.nextToken)
                    /\ requests' = Append(requests, Request(ListServicesTarget, body'))
                    /\ pc' = "await179"
                    /\ result' = result
               ELSE /\ result' = Returned(returnData')
                    /\ pc' = "done"
                    /\ UNCHANGED <<body, requests>>
    /\ UNCHANGED <<op, items, rejection>>

\* getServices after the await inside the loop (lines 187-197, then either the
\* next pass up to its await or the return)
GetServicesNextResolve(additionalData) ==
    /\ op = "getServices"
    /\ pc = "await179"
    /\ WithinPages(additionalData)
    /\ responses' = Append(responses, additionalData)
    /\ IF additionalData.null \/ ~additionalData.hasArns
       THEN /\ result' = Thrown(TypeError)
            /\ pc' = "done"
            /\ UNCHANGED <<returnData, body, requests>>
       ELSE /\ returnData' = returnData \o Options(additionalData.arns)
            /\ IF LoopContinues(additionalData.nextToken)
               THEN /\ body' = WithNextToken(body, additionalData.nextToken)
                    /\ requests' = Append(requests, Request(ListServicesTarget, body'))
                    /\ pc' = "await179"
                    /\ result' = result
               ELSE /\ result' = Returned(returnData')
                    /\ pc' = "done"
                    /\ UNCHANGED <<body, requests>>
    /\ UNCHANGED <<op, items, rejection>>

---------------------------------------------------------------------------
(* The helper fails.                                                       *)

AwaitPcs == {"await134", "await162", "await179", "await224", "await248"}

RejectReturnsPartial(e) ==
    /\ pc \in AwaitPcs
    /\ rejection' = e
    /\ result' = Returned(returnData)
    /\ pc' = "done"
    /\ UNCHANGED <<op, items, requests, responses, body, returnData>>

\* awsApiRequest rejects: no await is inside a try, so the error leaves the
\* entry point as it is, and the accumulator is dropped with the frame
Reject(e) ==
    /\ pc \in AwaitPcs
    /\ rejection' = e
    /\ result' = Thrown(e)
    /\ pc' = "done"
    /\ UNCHANGED <<op, items, requests, responses, body, returnData>>

---------------------------------------------------------------------------

HelperAnswers ==
    \/ \E r \in ExecuteResponses : ExecuteResolve(r)
    \/ \E r \in ListResponses : GetClustersResolve(r)
    \/ \E r \in ListResponses : GetServicesFirstResolve(r)
    \/ \E r \in ListResponses : GetServicesNextResolve(r)
    \/ \E e \in HelperErrors : Reject(e)

Next ==
    \/ \E its \in ExecuteInputs : ExecuteStart(its)
    \/ \E its \in LoadOptionsInputs : GetClustersStart(its)
    \/ \E its \in LoadOptionsInputs : GetServicesStart(its)
    \/ HelperAnswers

Spec == Init /\ [][Next]_vars

\* every request handed to the helper is eventually answered
FairSpec == Spec /\ WF_vars(HelperAnswers)

---------------------------------------------------------------------------
(* Properties.                                                             *)

Started(o) == op = o /\ pc # "idle"
ReturnedFrom(o) == op = o /\ pc = "done" /\ result.kind = "returned"
Last(seq) == seq[Len(seq)]

\* C1: every run of execute sends what the 'operation' parameter of item 0
\* decides: describeServices sends exactly one request, with X-Amz-Target
\* ...DescribeServices and the body {cluster, services}; forceNewDeployment
\* sends exactly one request, with X-Amz-Target ...UpdateService and a body
\* holding cluster, service and forceNewDeployment = true; any other operation
\* sends nothing.
C1_DispatchByOperation ==
    Started("execute") =>
        LET p == items[1]
        IN /\ p.operation = "describeServices" =>
                /\ Len(requests) = 1
                /\ requests[1].headers.XAmzTarget =
                        "AmazonEC2ContainerServiceV20141113.DescribeServices"
                /\ DOMAIN requests[1].body = {"cluster", "services"}
                /\ requests[1].body.cluster = p.clusterName
           /\ p.operation = "forceNewDeployment" =>
                /\ Len(requests) = 1
                /\ requests[1].headers.XAmzTarget =
                        "AmazonEC2ContainerServiceV20141113.UpdateService"
                /\ {"cluster", "service", "forceNewDeployment"} \subseteq DOMAIN requests[1].body
                /\ requests[1].body.cluster = p.clusterName
                /\ requests[1].body.service = p.serviceName
                /\ requests[1].body.forceNewDeployment = TRUE
           /\ p.operation \notin {"describeServices", "forceNewDeployment"} =>
                requests = <<>>

\* a describeServices run that has finished, with one DescribeServices request,
\* although the parameters of item 1 name forceNewDeployment
C1_Witness ==
    /\ ReturnedFrom("execute")
    /\ items[1].operation = "describeServices"
    /\ Len(items) = 2
    /\ items[2].operation = "forceNewDeployment"
    /\ Len(requests) = 1
    /\ requests[1].headers.XAmzTarget = "AmazonEC2ContainerServiceV20141113.DescribeServices"

\* C2: in a forceNewDeployment run the UpdateService body omits desiredCount
\* exactly when the parameter is -1, and carries the parameter's value for
\* every other value, 0 included.
C2_DesiredCountOmittedOnlyForMinusOne ==
    (Started("execute") /\ items[1].operation = "forceNewDeployment") =>
        LET b == requests[1].body
            d == items[1].desiredCount
        IN /\ ("desiredCount" \notin DOMAIN b) <=> (d = -1)
           /\ d # -1 => b.desiredCount = d

---------------------------------------------------------------------------
(* getServices and getClusters.                                            *)

\* the response carries a nextToken the code can follow
HasNextToken(r) == r.nextToken \notin {Undefined, ""}
\* the response is a page: an object with a list of ARNs
IsPage(r) == ~r.null /\ r.hasArns

RECURSIVE AllArns(_)
AllArns(resps) == IF resps = <<>> THEN <<>> ELSE Head(resps).arns \o AllArns(Tail(resps))

IsOptionListOf(value, arns) ==
    /\ Len(value) = Len(arns)
    /\ \A i \in 1..Len(arns) : value[i] = [name |-> arns[i], value |-> arns[i]]

\* one request at a time, request k+1 carrying the nextToken of response k
C3_Sequential ==
    LET c == items[1].clusterName
    IN /\ Len(requests) >= 1
       /\ Len(requests) \in {Len(responses), Len(responses) + 1}
       /\ \A k \in 1..Len(requests) :
            requests[k].headers.XAmzTarget = "AmazonEC2ContainerServiceV20141113.ListServices"
       /\ requests[1].body = [cluster |-> c, maxResults |-> 50]
       /\ \A k \in 2..Len(requests) :
            requests[k].body =
                [cluster |-> c, maxResults |-> 50, nextToken |-> responses[k - 1].nextToken]
       /\ ReturnedFrom("getServices") => IsOptionListOf(result.value, AllArns(responses))

C4_GetClustersPaginates ==
    ReturnedFrom("getClusters") =>
        /\ ~HasNextToken(Last(responses))
        /\ IsOptionListOf(result.value, AllArns(responses))

\* C5: once the helper has failed, the entry point has ended with that very
\* error, the failed request is the last one sent, and nothing is returned.
C5_NoRecoveryNoRetry ==
    rejection # NoError =>
        /\ pc = "done"
        /\ result.kind = "thrown"
        /\ result.error = rejection
        /\ result.value = <<>>
        /\ Len(requests) = Len(responses) + 1

\* getServices failing on its third page, with ARNs of two pages accumulated
C5_Witness ==
    /\ op = "getServices"
    /\ rejection = "Http500"
    /\ Len(responses) = 2
    /\ Len(returnData) >= 2
    /\ result.kind = "thrown"

---------------------------------------------------------------------------
(* execute: the round trip.                                                *)

\* C6: execute reads the parameters of item 0 only, sends at most one request,
\* and returns one branch of at most one item { json: the response, pairedItem:
\* { item: 0 } }; the branch is empty exactly when the response is falsy or the
\* operation is not one of the two.
C6_SingleRoundTrip ==
    Started("execute") =>
        LET p == items[1]
            known == p.operation \in {"describeServices", "forceNewDeployment"}
        IN /\ Len(requests) <= 1
           /\ Len(responses) <= Len(requests)
           /\ requests # <<>> =>
                /\ requests[1].body.cluster = p.clusterName
                /\ p.operation = "forceNewDeployment" =>
                        requests[1].body.service = p.serviceName
           /\ (pc = "done" /\ rejection = NoError) =>
                /\ result.kind = "returned"
                /\ Len(result.value) = 1
                /\ Len(result.value[1]) <= 1
                /\ result.value[1] # <<>> =>
                        result.value[1][1] =
                            [json |-> responses[1], pairedItem |-> [item |-> 0]]
                /\ (result.value[1] = <<>>) <=> (~known \/ responses[1].null)

\* two input items, one output item holding the response as it came
C6_Witness ==
    /\ ReturnedFrom("execute")
    /\ Len(items) = 2
    /\ Len(requests) = 1
    /\ result.value =
        <<<<[json |-> [null |-> FALSE, data |-> 2], pairedItem |-> [item |-> 0]]>>>>

\* the documented limit of the serviceNames parameter
MaxServices == 10

\* C7: the services array of a DescribeServices request never holds more than
\* 10 entries.
C7_AtMostTenServices ==
    (Started("execute") /\ items[1].operation = "describeServices") =>
        Len(requests[1].body.services) <= MaxServices

\* The pieces of a comma-separated string by position: piece c starts after the
\* cut at c (0, or the position of a comma) and ends before the next cut.
Cuts(raw) == {0} \cup {i \in 1..Len(raw) : raw[i] = ","}
NextCut(raw, c) ==
    LET later == {d \in Cuts(raw) \cup {Len(raw) + 1} : d > c}
    IN CHOOSE d \in later : \A e \in later : d <= e
PieceAt(raw, c) == SubSeq(raw, c + 1, NextCut(raw, c) - 1)
NonBlank(piece) == \E i \in 1..Len(piece) : piece[i] # " "
Stripped(piece) ==
    LET solid == {i \in 1..Len(piece) : piece[i] # " "}
        lo == CHOOSE i \in solid : \A j \in solid : i <= j
        hi == CHOOSE i \in solid : \A j \in solid : i >= j
    IN SubSeq(piece, lo, hi)

RECURSIVE NamesFrom(_, _)
NamesFrom(raw, c) ==
    IF c > Len(raw) THEN <<>>
    ELSE (IF c \in Cuts(raw) /\ NonBlank(PieceAt(raw, c))
          THEN <<Stripped(PieceAt(raw, c))>> ELSE <<>>) \o NamesFrom(raw, c + 1)

\* C8: the services sent are the pieces of serviceNames between the commas,
\* each without its surrounding whitespace, the blank pieces left out, in their
\* order and with duplicates kept; a request is sent even when none remains.
C8_ServicesAreTheTrimmedNonBlankPieces ==
    (Started("execute") /\ items[1].operation = "describeServices") =>
        /\ Len(requests) = 1
        /\ requests[1].body.services = NamesFrom(items[1].serviceNames, 0)

\* only commas and spaces: a request with services = []
C8_Witness ==
    /\ Started("execute")
    /\ items[1].operation = "describeServices"
    /\ items[1].serviceNames = <<" ", ",", ",", " ">>
    /\ Len(requests) = 1
    /\ requests[1].body.services = <<>>

---------------------------------------------------------------------------
(* getServices: termination.                                               *)

\* a run that returned after n responses sent n requests, and every response
\* before the last carried a nextToken
C9_OneRequestPerPage ==
    /\ Len(requests) = Len(responses)
    /\ \A k \in 1..(Len(responses) - 1) : HasNextToken(responses[k])

=============================================================================
